---- MODULE Spec2Model ----
(***************************************************************************)
(* The Game Object Animation component (src/gameobjects/components/        *)
(* Animation.js) as a state machine.  One component, owned by one Sprite,  *)
(* is driven by direct method calls and by update(time, delta).            *)
(*                                                                         *)
(* Every method is an operator from component records to component        *)
(* records, written in the order of the method's statements; an action     *)
(* applies one method to the current state and commits the result.  A      *)
(* JavaScript TypeError is the field `fault`: the call stops where the     *)
(* exception is thrown and the fields keep what was assigned before it.    *)
(*                                                                         *)
(* The Animation Definition class and the Animation Manager are not part   *)
(* of the component's source; their operators below (marked "Definition")  *)
(* follow the description of the frame-advance algorithm.                  *)
(* Rendering effects on the parent (texture, size, origin, alpha,          *)
(* visibility) are not state of the playback machine and are left out.     *)
(* The three events emitEvents sends (definition, sprite-by-key, sprite)   *)
(* always travel together and are one notification <<kind, key>>.          *)
(***************************************************************************)
EXTENDS Integers, Sequences, FiniteSets, TLC

VARIABLES isPlaying, hasStarted, currentAnim, currentFrame, nextAnim,
          nextAnimsQueue, timeScale, msPerFrame, skipMissedFrames, delay,
          repeat, repeatDelay, yoyo, forward, inReverse, accumulator,
          nextTick, delayCounter, repeatCounter, pendingRepeat, paused,
          wasPlaying, pendingStop, pendingStopValue,
          registry,      \* keys the Animation Manager resolves
          events,        \* notifications emitted by the last call
          fault,         \* the last call threw
          lastCall,      \* the last call and its arguments
          repeatsDone,   \* history: repeat notifications since the last start sequence
          armedCount,    \* history: the count the after-repeat pending stop was armed with
          repeatsSinceArm, \* history: repeat notifications since that arming
          returned,      \* the value the last call returned, if it returns one
          animationManager, \* the component holds its reference to the Animation Manager
          subscribed,    \* the manager's removal notification reaches the component
          anims,         \* the sprite holds its component (Sprite.anims)
          pausedAnims,   \* the Definitions that report themselves paused
          beforePause    \* history: the component as the last pause() found it

vars == <<isPlaying, hasStarted, currentAnim, currentFrame, nextAnim,
          nextAnimsQueue, timeScale, msPerFrame, skipMissedFrames, delay,
          repeat, repeatDelay, yoyo, forward, inReverse, accumulator,
          nextTick, delayCounter, repeatCounter, pendingRepeat, paused,
          wasPlaying, pendingStop, pendingStopValue, registry, events, fault,
          lastCall, repeatsDone, armedCount, repeatsSinceArm, returned, beforePause, animationManager, subscribed, anims, pausedAnims>>

-----------------------------------------------------------------------------
(* Bounds *)

MaxDelta == 2          \* update deltas are 1 .. MaxDelta
MaxAcc == 4            \* calls that would push the accumulator beyond this are not taken
MaxDelayCounter == 3   \* calls that would push delayCounter beyond this are not taken
MaxQueue == 2          \* calls that would grow nextAnimsQueue beyond this are not taken
MaxRepeat == 3         \* repeat overrides are -1 .. MaxRepeat
MaxCount == 4          \* the history counters saturate here

-----------------------------------------------------------------------------
(* Values *)

\* Number.MAX_VALUE: the "repeat forever" counter.  In double arithmetic
\* MAX_VALUE - 1 = MAX_VALUE, see Decrement.
MAX_VALUE == 1000000

Absent == -9           \* a property a request does not carry

NullAnim == "<null>"
NullFrame == [anim |-> "<null>", index |-> -1]
UndefFrame == [anim |-> "<undefined>", index |-> -1]
Frame(k, i) == [anim |-> k, index |-> i]
\* _pendingStopValue holds a number or a frame reference
Num(n) == [anim |-> "<number>", index |-> n]

\* A request: a string key, or a PlayAnimationConfig with overrides
Cfg(k, d, r, sf, ts) == [key |-> k, delay |-> d, repeat |-> r, startFrame |-> sf, timeScale |-> ts]
Key(k) == Cfg(k, Absent, Absent, Absent, Absent)
NullReq == Key("<null>")
UndefReq == Key("<undefined>")
Truthy(req) == req \notin {NullReq, UndefReq}

\* A call: the method, its arguments, whether it repeats the call before it,
\* and what the component was doing when it was made (was it playing, how many
\* animations were chained)
NoCall == [op |-> "new", args |-> <<>>, again |-> FALSE, playing |-> FALSE, chained |-> 0]
Call(o, a) == [op |-> o, args |-> a, again |-> FALSE, playing |-> FALSE, chained |-> 0]

\* The Definitions the Animation Manager holds
Definitions ==
    [a |-> [totalFrames |-> 3, msPerFrame |-> 2, delay |-> 0, repeat |-> 0,
            repeatDelay |-> 0, yoyo |-> FALSE, skipMissedFrames |-> TRUE],
     b |-> [totalFrames |-> 2, msPerFrame |-> 2, delay |-> 0, repeat |-> 1,
            repeatDelay |-> 0, yoyo |-> FALSE, skipMissedFrames |-> FALSE],
     c |-> [totalFrames |-> 2, msPerFrame |-> 2, delay |-> 0, repeat |-> -1,
            repeatDelay |-> 0, yoyo |-> FALSE, skipMissedFrames |-> TRUE],
     y |-> [totalFrames |-> 2, msPerFrame |-> 2, delay |-> 0, repeat |-> 1,
            repeatDelay |-> 2, yoyo |-> TRUE, skipMissedFrames |-> TRUE],
     d |-> [totalFrames |-> 3, msPerFrame |-> 1, delay |-> 0, repeat |-> 0,
            repeatDelay |-> 0, yoyo |-> FALSE, skipMissedFrames |-> FALSE]]

AllKeys == DOMAIN Definitions

\* GetFastValue(source, key, defaultValue)
GetFastValue(v, default) == IF v = Absent THEN default ELSE v

Min(x, y) == IF x < y THEN x ELSE y
\* a call that returns the Game Object returns no value of interest
NoValue == -99
Bump(n) == Min(n + 1, MaxCount)

-----------------------------------------------------------------------------
(* The component as a record *)

Self ==
    [isPlaying |-> isPlaying, hasStarted |-> hasStarted, currentAnim |-> currentAnim,
     currentFrame |-> currentFrame, nextAnim |-> nextAnim,
     nextAnimsQueue |-> nextAnimsQueue, timeScale |-> timeScale,
     msPerFrame |-> msPerFrame, skipMissedFrames |-> skipMissedFrames,
     delay |-> delay, repeat |-> repeat, repeatDelay |-> repeatDelay, yoyo |-> yoyo,
     forward |-> forward, inReverse |-> inReverse, accumulator |-> accumulator,
     nextTick |-> nextTick, delayCounter |-> delayCounter,
     repeatCounter |-> repeatCounter, pendingRepeat |-> pendingRepeat,
     paused |-> paused, wasPlaying |-> wasPlaying, pendingStop |-> pendingStop,
     pendingStopValue |-> pendingStopValue, registry |-> registry,
     events |-> <<>>, fault |-> FALSE,
     repeatsDone |-> repeatsDone, armedCount |-> armedCount,
     repeatsSinceArm |-> repeatsSinceArm, returned |-> NoValue,
     animationManager |-> animationManager, subscribed |-> subscribed,
     anims |-> anims, pausedAnims |-> pausedAnims]

\* The constructor
Constructed ==
    [isPlaying |-> FALSE, hasStarted |-> FALSE, currentAnim |-> NullAnim,
     currentFrame |-> NullFrame, nextAnim |-> NullReq, nextAnimsQueue |-> <<>>,
     timeScale |-> 1, msPerFrame |-> 0, skipMissedFrames |-> TRUE, delay |-> 0,
     repeat |-> 0, repeatDelay |-> 0, yoyo |-> FALSE, forward |-> TRUE,
     inReverse |-> FALSE, accumulator |-> 0, nextTick |-> 0, delayCounter |-> 0,
     repeatCounter |-> 0, pendingRepeat |-> FALSE, paused |-> FALSE,
     wasPlaying |-> FALSE, pendingStop |-> 0, pendingStopValue |-> Num(0),
     registry |-> AllKeys, events |-> <<>>, fault |-> FALSE,
     repeatsDone |-> 0, armedCount |-> 0, repeatsSinceArm |-> 0, returned |-> NoValue,
     animationManager |-> TRUE, subscribed |-> TRUE, anims |-> TRUE,
     pausedAnims |-> {}]

Fault(s) == [s EXCEPT !.fault = TRUE]

\* Statement sequencing: the rest of a method runs on the state its first
\* part leaves, and not at all when that part threw
With(s, Rest(_)) == Rest(s)
Then(s, Rest(_)) == IF s.fault THEN s ELSE Rest(s)

RECURSIVE Stop(_), Play(_, _, _), StartAnimation(_, _), Load(_, _),
          HandleStart(_), UpdateFrame(_, _)

-----------------------------------------------------------------------------
(* Definition: timing *)

\* Animation.getFirstTick(component); it reads component.currentFrame.duration
GetFirstTick(s) ==
    IF s.currentFrame \in {NullFrame, UndefFrame} THEN Fault(s)
    ELSE [s EXCEPT !.accumulator = 0, !.nextTick = s.msPerFrame]

\* Animation.getNextTick(component)
GetNextTick(s) ==
    [s EXCEPT !.accumulator = @ - s.nextTick, !.nextTick = s.msPerFrame]

\* x-- on the repeat counter, in double arithmetic
Decrement(x) == IF x = MAX_VALUE THEN MAX_VALUE ELSE x - 1

-----------------------------------------------------------------------------
(* Component: notifications *)

\* emitEvents
EmitEvents(s, kind) ==
    IF s.currentAnim = NullAnim THEN Fault(s)
    ELSE [s EXCEPT !.events = Append(@, <<kind, s.currentAnim>>)]

\* handleStop
HandleStop(s) ==
    EmitEvents([s EXCEPT !.pendingStop = 0, !.isPlaying = FALSE], "stop")

\* handleComplete
HandleComplete(s) ==
    EmitEvents([s EXCEPT !.pendingStop = 0, !.isPlaying = FALSE], "complete")

\* handleRepeat
HandleRepeat(s) ==
    EmitEvents([s EXCEPT !.pendingRepeat = FALSE,
                         !.repeatsDone = Bump(@),
                         !.repeatsSinceArm = Bump(@)], "repeat")

\* setCurrentFrame: currentFrame is assigned before animationFrame.frame is read
SetCurrentFrame(s, f) ==
    IF f \in {NullFrame, UndefFrame}
    THEN Fault([s EXCEPT !.currentFrame = f])
    ELSE [s EXCEPT !.currentFrame = f]

\* Array.shift on nextAnimsQueue: undefined when the queue is empty
ShiftValue(q) == IF Len(q) > 0 THEN Head(q) ELSE UndefReq
ShiftRest(q) == IF Len(q) > 0 THEN Tail(q) ELSE q

-----------------------------------------------------------------------------
(* Component: load, start, stop *)

\* updateFrame without the stop on the awaited frame
UpdateFrameNeverStops(s, f) ==
    Then(SetCurrentFrame(s, f), LAMBDA s1 :
      IF ~s1.isPlaying THEN s1 ELSE EmitEvents(s1, "update"))

\* updateFrame
UpdateFrame(s, f) ==
    Then(SetCurrentFrame(s, f), LAMBDA s1 :
      IF ~s1.isPlaying THEN s1
      ELSE Then(EmitEvents(s1, "update"), LAMBDA s2 :
             IF s2.pendingStop = 3 /\ s2.pendingStopValue = f THEN Stop(s2) ELSE s2))

\* handleStart
HandleStart(s) ==
    Then(UpdateFrame(s, s.currentFrame), LAMBDA s1 :
      EmitEvents([s1 EXCEPT !.hasStarted = TRUE], "start"))

\* load, from the registry lookup on
LoadResolved(s1, key) ==
    IF ~s1.animationManager THEN Fault(s1)    \* manager.get on null
    ELSE IF key.key \notin s1.registry THEN s1     \* console.warn
    ELSE With([s1 EXCEPT !.currentAnim = key.key,
                         !.msPerFrame = Definitions[key.key].msPerFrame,
                         !.delay = GetFastValue(key.delay, Definitions[key.key].delay),
                         !.repeat = GetFastValue(key.repeat, Definitions[key.key].repeat),
                         !.repeatDelay = Definitions[key.key].repeatDelay,
                         !.yoyo = Definitions[key.key].yoyo,
                         !.skipMissedFrames = Definitions[key.key].skipMissedFrames,
                         !.timeScale = GetFastValue(key.timeScale, s1.timeScale)],
              LAMBDA s2 :
      LET total == Definitions[key.key].totalFrames
          requested == GetFastValue(key.startFrame, 0)
          startFrame == IF requested > total THEN 0 ELSE requested
          frame == IF startFrame \in 0 .. (total - 1)
                   THEN Frame(key.key, startFrame) ELSE UndefFrame
      IN IF startFrame = 0 /\ ~s2.forward
         THEN Fault(s2)        \* this.getLastFrame is not a function of the component
         ELSE [s2 EXCEPT !.currentFrame = frame])

\* load
Load(s, key) ==
    IF s.isPlaying THEN Then(Stop(s), LAMBDA s1 : LoadResolved(s1, key))
    ELSE LoadResolved(s, key)

\* startAnimation that stores the repeat value as it is
StartAnimationNoSentinel(s, key) ==
    Then(Load(s, key), LAMBDA s1 :
      IF s1.currentAnim = NullAnim THEN s1
      ELSE Then(GetFirstTick([s1 EXCEPT !.repeatCounter = s1.repeat]),
                LAMBDA s3 :
             With([s3 EXCEPT !.isPlaying = TRUE, !.pendingRepeat = FALSE,
                             !.hasStarted = FALSE, !.pendingStop = 0,
                             !.pendingStopValue = Num(0), !.paused = FALSE,
                             !.delayCounter = @ + s3.delay,
                             !.repeatsDone = 0],
                  LAMBDA s4 : IF s4.delayCounter = 0 THEN HandleStart(s4) ELSE s4)))

\* startAnimation
StartAnimation(s, key) ==
    Then(Load(s, key), LAMBDA s1 :
      IF s1.currentAnim = NullAnim THEN s1
      ELSE Then(GetFirstTick([s1 EXCEPT !.repeatCounter =
                                 IF s1.repeat = -1 THEN MAX_VALUE ELSE s1.repeat]),
                LAMBDA s3 :
             With([s3 EXCEPT !.isPlaying = TRUE, !.pendingRepeat = FALSE,
                             !.hasStarted = FALSE, !.pendingStop = 0,
                             !.pendingStopValue = Num(0), !.paused = FALSE,
                             !.delayCounter = @ + s3.delay,
                             !.repeatsDone = 0],
                  LAMBDA s4 : IF s4.delayCounter = 0 THEN HandleStart(s4) ELSE s4)))

\* play whose ignoreIfPlaying does not look at the key
PlayIgnoresWhilePlaying(s, key, ignoreIfPlaying) ==
    IF ignoreIfPlaying /\ s.isPlaying THEN s
    ELSE StartAnimation([s EXCEPT !.forward = TRUE, !.inReverse = FALSE,
                                  !.paused = FALSE, !.wasPlaying = TRUE], key)

\* play that restarts whatever the flag
PlayAlwaysRestarts(s, key, ignoreIfPlaying) ==
    StartAnimation([s EXCEPT !.forward = TRUE, !.inReverse = FALSE,
                             !.paused = FALSE, !.wasPlaying = TRUE], key)

\* play
Play(s, key, ignoreIfPlaying) ==
    IF ignoreIfPlaying /\ s.isPlaying /\ s.currentAnim = NullAnim THEN Fault(s)
    ELSE IF ignoreIfPlaying /\ s.isPlaying /\ s.currentAnim = key.key THEN s
    ELSE StartAnimation([s EXCEPT !.forward = TRUE, !.inReverse = FALSE,
                                  !.paused = FALSE, !.wasPlaying = TRUE], key)

\* playReverse
PlayReverse(s, key, ignoreIfPlaying) ==
    IF ignoreIfPlaying /\ s.isPlaying /\ s.currentAnim = NullAnim THEN Fault(s)
    ELSE IF ignoreIfPlaying /\ s.isPlaying /\ s.currentAnim = key.key THEN s
    ELSE StartAnimation([s EXCEPT !.forward = FALSE, !.inReverse = TRUE,
                                  !.paused = FALSE, !.wasPlaying = TRUE], key)

\* stop that leaves the started animation in the slot
StopKeepsSlot(s) ==
    Then(IF s.currentAnim # NullAnim
         THEN HandleStop([s EXCEPT !.pendingStop = 0, !.isPlaying = FALSE])
         ELSE [s EXCEPT !.pendingStop = 0, !.isPlaying = FALSE],
         LAMBDA s2 :
      IF ~Truthy(s2.nextAnim) THEN s2 ELSE Play(s2, s2.nextAnim, FALSE))

\* stop that leaves the pending stop armed
StopKeepsPendingStop(s) ==
    Then(IF s.currentAnim # NullAnim
         THEN HandleStop([s EXCEPT !.isPlaying = FALSE])
         ELSE [s EXCEPT !.isPlaying = FALSE],
         LAMBDA s2 :
      IF ~Truthy(s2.nextAnim) THEN s2
      ELSE Play([s2 EXCEPT !.nextAnim = ShiftValue(s2.nextAnimsQueue),
                           !.nextAnimsQueue = ShiftRest(s2.nextAnimsQueue)],
                s2.nextAnim, FALSE))

\* stop
Stop(s) ==
    Then(IF s.currentAnim # NullAnim
         THEN HandleStop([s EXCEPT !.pendingStop = 0, !.isPlaying = FALSE])
         ELSE [s EXCEPT !.pendingStop = 0, !.isPlaying = FALSE],
         LAMBDA s2 :
      IF ~Truthy(s2.nextAnim) THEN s2
      ELSE Play([s2 EXCEPT !.nextAnim = ShiftValue(s2.nextAnimsQueue),
                           !.nextAnimsQueue = ShiftRest(s2.nextAnimsQueue)],
                s2.nextAnim, FALSE))

\* complete
Complete(s) ==
    Then(IF s.currentAnim # NullAnim
         THEN HandleComplete([s EXCEPT !.pendingStop = 0, !.isPlaying = FALSE])
         ELSE [s EXCEPT !.pendingStop = 0, !.isPlaying = FALSE],
         LAMBDA s2 :
      IF ~Truthy(s2.nextAnim) THEN s2
      ELSE Play([s2 EXCEPT !.nextAnim = IF Len(s2.nextAnimsQueue) > 0
                                        THEN Head(s2.nextAnimsQueue) ELSE NullReq,
                           !.nextAnimsQueue = ShiftRest(s2.nextAnimsQueue)],
                s2.nextAnim, FALSE))

\* chain whose reset forgets the queue
ChainResetKeepsQueue(s, keys) ==
    IF keys = <<>> THEN [s EXCEPT !.nextAnim = NullReq]
    ELSE IF s.nextAnim = NullReq
         THEN [s EXCEPT !.nextAnim = Head(keys), !.nextAnimsQueue = @ \o Tail(keys)]
         ELSE [s EXCEPT !.nextAnimsQueue = @ \o keys]

\* chain; keys = <<>> is the call without an argument
Chain(s, keys) ==
    IF keys = <<>> THEN [s EXCEPT !.nextAnimsQueue = <<>>, !.nextAnim = NullReq]
    ELSE IF s.nextAnim = NullReq
         THEN [s EXCEPT !.nextAnim = Head(keys), !.nextAnimsQueue = @ \o Tail(keys)]
         ELSE [s EXCEPT !.nextAnimsQueue = @ \o keys]

-----------------------------------------------------------------------------
(* Definition: frame advance *)

TotalOf(f) == Definitions[f.anim].totalFrames
IsLast(f) == f.index = TotalOf(f) - 1
IsFirst(f) == f.index = 0
\* AnimationFrame.nextFrame / prevFrame: the frames of a Definition are linked in a ring
NextOf(f) == Frame(f.anim, (f.index + 1) % TotalOf(f))
PrevOf(f) == Frame(f.anim, (f.index + TotalOf(f) - 1) % TotalOf(f))

\* Animation.updateAndGetNextTick(component, frame)
UpdateAndGetNextTick(s, f) ==
    Then(UpdateFrame(s, f), LAMBDA s1 : GetNextTick(s1))

\* Animation.completeAnimation(component)
CompleteAnimation(s) == Complete(s)

\* Animation.repeatAnimation(component), after the pending-stop check: the
\* repeat delay is waited out first; the repeat itself takes one off the
\* repeat counter and off the count of an armed after-repeat pending stop
RepeatNow(s1) ==
    IF s1.repeatDelay > 0 /\ ~s1.pendingRepeat
    THEN [s1 EXCEPT !.pendingRepeat = TRUE,
                    !.accumulator = @ - s1.nextTick,
                    !.nextTick = @ + s1.repeatDelay]
    ELSE Then(UpdateFrame([s1 EXCEPT !.repeatCounter = Decrement(@),
                                     !.pendingStopValue =
                                         IF s1.pendingStop = 2
                                         THEN Num(@.index - 1) ELSE @],
                          IF s1.forward THEN NextOf(s1.currentFrame)
                                        ELSE PrevOf(s1.currentFrame)),
              LAMBDA s3 : IF ~s3.isPlaying THEN s3 ELSE HandleRepeat(GetNextTick(s3)))

\* Animation.repeatAnimation(component): an armed after-repeat pending stop
\* lets its count of repeats pass and stops at the boundary after them
RepeatAnimation(s) ==
    IF s.pendingStop = 2 /\ s.pendingStopValue = Num(0) THEN Stop(s)
    ELSE RepeatNow(s)

\* Animation.handleYoyoFrame(component, isReverse)
HandleYoyoFrame(s, isReverse) ==
    IF s.inReverse = ~isReverse /\ s.repeatCounter > 0
    THEN RepeatAnimation(IF s.repeatDelay = 0 \/ s.pendingRepeat
                         THEN [s EXCEPT !.forward = isReverse] ELSE s)
    ELSE IF s.inReverse # isReverse /\ s.repeatCounter = 0
    THEN CompleteAnimation(s)
    ELSE UpdateAndGetNextTick([s EXCEPT !.forward = isReverse],
                              IF isReverse THEN NextOf(s.currentFrame)
                                           ELSE PrevOf(s.currentFrame))

\* Animation.nextFrame(component)
NextFrame(s) ==
    IF s.currentFrame \in {NullFrame, UndefFrame} THEN Fault(s)
    ELSE IF ~IsLast(s.currentFrame) THEN UpdateAndGetNextTick(s, NextOf(s.currentFrame))
    ELSE IF s.yoyo THEN HandleYoyoFrame(s, FALSE)
    ELSE IF s.repeatCounter > 0
         THEN IF s.inReverse /\ s.forward
              THEN [s EXCEPT !.forward = FALSE]
              ELSE RepeatAnimation(s)
    ELSE CompleteAnimation(s)

\* Animation.previousFrame(component)
PreviousFrame(s) ==
    IF s.currentFrame \in {NullFrame, UndefFrame} THEN Fault(s)
    ELSE IF ~IsFirst(s.currentFrame) THEN UpdateAndGetNextTick(s, PrevOf(s.currentFrame))
    ELSE IF s.yoyo THEN HandleYoyoFrame(s, TRUE)
    ELSE IF s.repeatCounter > 0
         THEN IF s.inReverse /\ ~s.forward
              THEN RepeatAnimation(s)
              ELSE RepeatAnimation([s EXCEPT !.forward = TRUE])
    ELSE CompleteAnimation(s)

-----------------------------------------------------------------------------
(* Component: the tick *)

\* update, after the accumulator and an after-ms pending stop have taken the
\* delta, with the time beyond the delay dropped
AdvanceDiscardsOverflow(s2) ==
    IF s2.pendingStop = 1 /\ s2.pendingStopValue.index <= 0 THEN Stop(s2)
    ELSE IF ~s2.hasStarted
         THEN IF s2.accumulator >= s2.delayCounter
              THEN HandleStart([s2 EXCEPT !.accumulator = 0])
              ELSE s2
    ELSE IF s2.accumulator >= s2.nextTick
         THEN IF s2.forward THEN NextFrame(s2) ELSE PreviousFrame(s2)
    ELSE s2

\* update that advances a second time when the time left covers another frame
AdvanceCatchesUp(s2) ==
    IF s2.pendingStop = 1 /\ s2.pendingStopValue.index <= 0 THEN Stop(s2)
    ELSE IF ~s2.hasStarted
         THEN IF s2.accumulator >= s2.delayCounter
              THEN HandleStart([s2 EXCEPT !.accumulator = @ - s2.delayCounter])
              ELSE s2
    ELSE IF s2.accumulator >= s2.nextTick
         THEN Then(IF s2.forward THEN NextFrame(s2) ELSE PreviousFrame(s2), LAMBDA s3 :
                IF s3.isPlaying /\ s3.accumulator >= s3.nextTick
                THEN IF s3.forward THEN NextFrame(s3) ELSE PreviousFrame(s3)
                ELSE s3)
    ELSE s2

\* update, after the accumulator and an after-ms pending stop have taken the delta
Advance(s2) ==
    IF s2.pendingStop = 1 /\ s2.pendingStopValue.index <= 0 THEN Stop(s2)
    ELSE IF ~s2.hasStarted
         THEN IF s2.accumulator >= s2.delayCounter
              THEN HandleStart([s2 EXCEPT !.accumulator = @ - s2.delayCounter])
              ELSE s2
    ELSE IF s2.accumulator >= s2.nextTick
         THEN IF s2.forward THEN NextFrame(s2) ELSE PreviousFrame(s2)
    ELSE s2

\* update that takes the scaled delta from the after-ms pending stop
UpdateScalesPendingStop(s, delta) ==
    IF ~s.isPlaying \/ s.currentAnim = NullAnim THEN s
    ELSE Advance([s EXCEPT !.accumulator = @ + delta * s.timeScale,
                           !.pendingStopValue =
                               IF s.pendingStop = 1 THEN Num(@.index - delta * s.timeScale)
                                                    ELSE @])

\* update that does not ask the Definition whether it is paused
UpdateIgnoresDefinitionPause(s, delta) ==
    IF ~s.isPlaying \/ s.currentAnim = NullAnim THEN s
    ELSE Advance([s EXCEPT !.accumulator = @ + delta * s.timeScale,
                           !.pendingStopValue =
                               IF s.pendingStop = 1 THEN Num(@.index - delta) ELSE @])

\* update(time, delta)
Update(s, delta) ==
    IF ~s.isPlaying \/ s.currentAnim = NullAnim \/ s.currentAnim \in s.pausedAnims THEN s
    ELSE Advance([s EXCEPT !.accumulator = @ + delta * s.timeScale,
                           !.pendingStopValue =
                               IF s.pendingStop = 1 THEN Num(@.index - delta) ELSE @])

-----------------------------------------------------------------------------
(* Component: pause, resume, pending stops, delayed starts *)

\* pause that records on every call
PauseEveryCall(s, atFrame) ==
    With([s EXCEPT !.paused = TRUE, !.wasPlaying = s.isPlaying, !.isPlaying = FALSE],
         LAMBDA s1 : IF atFrame # NullFrame THEN UpdateFrame(s1, atFrame) ELSE s1)

\* pause that records a playing animation whatever it finds
PauseRemembersPlaying(s, atFrame) ==
    With(IF ~s.paused
         THEN [s EXCEPT !.paused = TRUE, !.wasPlaying = TRUE, !.isPlaying = FALSE]
         ELSE s,
         LAMBDA s1 : IF atFrame # NullFrame THEN UpdateFrame(s1, atFrame) ELSE s1)

\* pause(atFrame); atFrame = NullFrame is the call without an argument
Pause(s, atFrame) ==
    With(IF ~s.paused
         THEN [s EXCEPT !.paused = TRUE, !.wasPlaying = s.isPlaying, !.isPlaying = FALSE]
         ELSE s,
         LAMBDA s1 : IF atFrame # NullFrame THEN UpdateFrame(s1, atFrame) ELSE s1)

\* resume that always sets the animation playing
ResumeAlwaysPlays(s, fromFrame) ==
    With(IF s.paused
         THEN [s EXCEPT !.paused = FALSE, !.isPlaying = TRUE]
         ELSE s,
         LAMBDA s1 : IF fromFrame # NullFrame THEN UpdateFrame(s1, fromFrame) ELSE s1)

\* resume(fromFrame)
Resume(s, fromFrame) ==
    With(IF s.paused
         THEN [s EXCEPT !.paused = FALSE, !.isPlaying = s.wasPlaying]
         ELSE s,
         LAMBDA s1 : IF fromFrame # NullFrame THEN UpdateFrame(s1, fromFrame) ELSE s1)

\* Demote the next animation to the head of the queue (Array.unshift)
Demote(s) ==
    IF Truthy(s.nextAnim) THEN [s EXCEPT !.nextAnimsQueue = <<s.nextAnim>> \o @] ELSE s

\* playAfterDelay that overwrites the next animation
PlayAfterDelayOverwrites(s, key, d) ==
    IF ~s.isPlaying
    THEN Play([s EXCEPT !.delayCounter = d], key, TRUE)
    ELSE [s EXCEPT !.nextAnim = key, !.pendingStop = 1, !.pendingStopValue = Num(d)]

\* playAfterDelay
PlayAfterDelay(s, key, d) ==
    IF ~s.isPlaying
    THEN Play([s EXCEPT !.delayCounter = d], key, TRUE)
    ELSE [Demote(s) EXCEPT !.nextAnim = key, !.pendingStop = 1, !.pendingStopValue = Num(d)]

\* repeatCount === undefined
DefaultCount(repeatCount) == IF repeatCount = Absent THEN 1 ELSE repeatCount

\* a clamp that never takes effect
ClampNever(s, repeatCount) == DefaultCount(repeatCount)

\* a clamp that always takes all the remaining repeats
ClampToRemaining(s, repeatCount) == s.repeatCounter

\* the clamp shared by playAfterRepeat and stopAfterRepeat
ClampRepeatCount(s, repeatCount) ==
    IF s.repeatCounter # -1 /\ DefaultCount(repeatCount) > s.repeatCounter
    THEN s.repeatCounter ELSE DefaultCount(repeatCount)

\* playAfterRepeat
PlayAfterRepeat(s, key, repeatCount) ==
    IF ~s.isPlaying
    THEN Play(s, key, FALSE)
    ELSE [Demote(s) EXCEPT !.nextAnim = key, !.pendingStop = 2,
                           !.pendingStopValue = Num(ClampRepeatCount(s, repeatCount)),
                           !.armedCount = ClampRepeatCount(s, repeatCount),
                           !.repeatsSinceArm = 0]

\* stopAfterDelay
StopAfterDelay(s, d) == [s EXCEPT !.pendingStop = 1, !.pendingStopValue = Num(d)]

\* stopAfterRepeat
StopAfterRepeat(s, repeatCount) ==
    [s EXCEPT !.pendingStop = 2,
              !.pendingStopValue = Num(ClampRepeatCount(s, repeatCount)),
              !.armedCount = ClampRepeatCount(s, repeatCount),
              !.repeatsSinceArm = 0]

\* stopOnFrame
StopOnFrame(s, f) == [s EXCEPT !.pendingStop = 3, !.pendingStopValue = f]

\* setRepeat that stores the value as it is
SetRepeatStoresRaw(s, value) == [s EXCEPT !.repeatCounter = value]

\* setRepeat
SetRepeat(s, value) ==
    [s EXCEPT !.repeatCounter = IF value = -1 THEN MAX_VALUE ELSE value]

\* reverse
Reverse(s) ==
    IF s.isPlaying THEN [s EXCEPT !.inReverse = ~@, !.forward = ~@] ELSE s

\* restart that leaves the paused flag as it is
RestartKeepsPaused(s, includeDelay, resetRepeats) ==
    IF s.currentAnim = NullAnim THEN s
    ELSE Then(GetFirstTick([s EXCEPT !.repeatCounter =
                               IF ~resetRepeats THEN @
                               ELSE IF s.repeat = -1 THEN MAX_VALUE ELSE s.repeat]),
              LAMBDA s2 :
           Then(EmitEvents(s2, "restart"), LAMBDA s3 :
             UpdateFrame([s3 EXCEPT !.isPlaying = TRUE, !.pendingRepeat = FALSE,
                                    !.hasStarted = ~includeDelay, !.pendingStop = 0,
                                    !.pendingStopValue = Num(0),
                                    !.repeatsDone = 0],
                         Frame(s3.currentAnim, 0))))

\* restart(includeDelay, resetRepeats)
Restart(s, includeDelay, resetRepeats) ==
    IF s.currentAnim = NullAnim THEN s
    ELSE Then(GetFirstTick([s EXCEPT !.repeatCounter =
                               IF ~resetRepeats THEN @
                               ELSE IF s.repeat = -1 THEN MAX_VALUE ELSE s.repeat]),
              LAMBDA s2 :
           Then(EmitEvents(s2, "restart"), LAMBDA s3 :
             UpdateFrame([s3 EXCEPT !.isPlaying = TRUE, !.pendingRepeat = FALSE,
                                    !.hasStarted = ~includeDelay, !.pendingStop = 0,
                                    !.pendingStopValue = Num(0), !.paused = FALSE,
                                    !.repeatsDone = 0],
                         Frame(s3.currentAnim, 0))))

\* Progress values are held in quarters: One stands for 1.0
One == 4
Progresses == 0 .. One

\* AnimationFrame.progress: the frames of a Definition divide 0..1 evenly
ProgressOf(f) == (f.index * One) \div (TotalOf(f) - 1)

Distance(x, y) == IF x < y THEN y - x ELSE x - y

\* Animation.getFrameByProgress(value): the frame whose progress is closest
\* to the value, the later one of two equally close
GetFrameByProgress(k, value) ==
    LET frames == {Frame(k, i) : i \in 0 .. (Definitions[k].totalFrames - 1)}
        closest == {f \in frames : \A g \in frames :
                       Distance(ProgressOf(f), value) <= Distance(ProgressOf(g), value)}
    IN CHOOSE f \in closest : \A g \in closest : g.index <= f.index

\* getProgress
GetProgress(s) ==
    IF s.currentFrame \in {NullFrame, UndefFrame} THEN [s EXCEPT !.returned = 0]
    ELSE [s EXCEPT !.returned = IF s.inReverse THEN ProgressOf(s.currentFrame) * (-1)
                                               ELSE ProgressOf(s.currentFrame)]

\* setProgress(value)
SetProgress(s, value) ==
    IF s.currentAnim = NullAnim THEN Fault(s)
    ELSE SetCurrentFrame(s, GetFrameByProgress(s.currentAnim,
                                               IF ~s.forward THEN One - value ELSE value))

\* remove(key, animation): the handler of the manager's removal notification
Remove(s, key) ==
    IF ~s.isPlaying THEN s
    ELSE IF s.currentAnim = NullAnim THEN Fault(s)
    ELSE IF key # s.currentAnim THEN s
    ELSE Then(Stop(s), LAMBDA s1 : SetCurrentFrame(s1, Frame(s1.currentAnim, 0)))

\* AnimationManager.remove(key): the notification goes out, then the
\* Definition leaves the registry
ManagerRemove(s, key) ==
    Then(IF s.subscribed THEN Remove(s, key) ELSE s,
         LAMBDA s1 : [s1 EXCEPT !.registry = @ \ {key}])

\* destroy that leaves the removal listener registered
DestroyKeepsListening(s) ==
    [s EXCEPT !.animationManager = FALSE,
              !.nextAnim = NullReq, !.nextAnimsQueue = <<>>,
              !.currentAnim = NullAnim, !.currentFrame = NullFrame]

\* destroy
Destroy(s) ==
    IF ~s.animationManager THEN Fault(s)      \* animationManager.off on null
    ELSE [s EXCEPT !.subscribed = FALSE, !.animationManager = FALSE,
                   !.nextAnim = NullReq, !.nextAnimsQueue = <<>>,
                   !.currentAnim = NullAnim, !.currentFrame = NullFrame]

\* Animation.pause and Animation.resume of a Definition: its paused flag
DefinitionPause(s, key) == [s EXCEPT !.pausedAnims = @ \cup {key}]
DefinitionResume(s, key) == [s EXCEPT !.pausedAnims = @ \ {key}]

-----------------------------------------------------------------------------
(* The sprite that owns the component *)

\* Sprite.preDestroy
SpritePreDestroy(s) ==
    IF ~s.anims THEN Fault(s)                 \* undefined.destroy
    ELSE Then(Destroy(s), LAMBDA s1 : [s1 EXCEPT !.anims = FALSE])

\* Sprite.delayedPlay(delay, key): it calls this.anims.delayedPlay, which the
\* component does not define
SpriteDelayedPlay(s, d, key) == Fault(s)

-----------------------------------------------------------------------------
(* Actions: one call of one method *)

\* What pause() found: kept through the update calls that follow and through
\* the resume() after them, dropped by any other call
NoSnapshot ==
    [set |-> FALSE, resumed |-> FALSE, ticks |-> 0, paused |-> FALSE,
     isPlaying |-> FALSE, accumulator |-> 0, nextTick |-> 0, delayCounter |-> 0,
     repeatCounter |-> 0, pendingStop |-> 0, pendingStopValue |-> Num(0),
     currentFrame |-> NullFrame]

Snapshot ==
    [set |-> TRUE, resumed |-> FALSE, ticks |-> 0, paused |-> paused,
     isPlaying |-> isPlaying, accumulator |-> accumulator, nextTick |-> nextTick,
     delayCounter |-> delayCounter, repeatCounter |-> repeatCounter,
     pendingStop |-> pendingStop, pendingStopValue |-> pendingStopValue,
     currentFrame |-> currentFrame]

SnapshotAfter(call) ==
    IF call.op = "pause" /\ call.args = <<NullFrame>> THEN Snapshot
    ELSE IF ~beforePause.set \/ beforePause.resumed THEN NoSnapshot
    ELSE IF call.op = "update" THEN [beforePause EXCEPT !.ticks = Bump(@)]
    ELSE IF call.op = "resume" /\ call.args = <<NullFrame>>
         THEN [beforePause EXCEPT !.resumed = TRUE]
    ELSE NoSnapshot

InBounds(s) ==
    /\ s.accumulator <= MaxAcc
    /\ s.delayCounter <= MaxDelayCounter
    /\ Len(s.nextAnimsQueue) <= MaxQueue

\* The history counters are kept while they are in use and through the call
\* that ends their use
Live(s) == s.isPlaying \/ (s.paused /\ s.wasPlaying)

Commit(s, call) ==
    /\ InBounds(s)
    /\ isPlaying' = s.isPlaying
    /\ hasStarted' = s.hasStarted
    /\ currentAnim' = s.currentAnim
    /\ currentFrame' = s.currentFrame
    /\ nextAnim' = s.nextAnim
    /\ nextAnimsQueue' = s.nextAnimsQueue
    /\ timeScale' = s.timeScale
    /\ msPerFrame' = s.msPerFrame
    /\ skipMissedFrames' = s.skipMissedFrames
    /\ delay' = s.delay
    /\ repeat' = s.repeat
    /\ repeatDelay' = s.repeatDelay
    /\ yoyo' = s.yoyo
    /\ forward' = s.forward
    /\ inReverse' = s.inReverse
    /\ accumulator' = s.accumulator
    /\ nextTick' = s.nextTick
    /\ delayCounter' = s.delayCounter
    /\ repeatCounter' = s.repeatCounter
    /\ pendingRepeat' = s.pendingRepeat
    /\ paused' = s.paused
    /\ wasPlaying' = s.wasPlaying
    /\ pendingStop' = s.pendingStop
    /\ pendingStopValue' = s.pendingStopValue
    /\ registry' = s.registry
    /\ events' = s.events
    /\ fault' = s.fault
    /\ lastCall' = [call EXCEPT !.again = (call.op \in {"pause", "resume"}
                                            /\ lastCall.op = call.op
                                            /\ lastCall.args = call.args),
                                !.playing = isPlaying,
                                !.chained = Len(nextAnimsQueue)
                                            + (IF Truthy(nextAnim) THEN 1 ELSE 0)]
    /\ returned' = s.returned
    /\ animationManager' = s.animationManager
    /\ subscribed' = s.subscribed
    /\ anims' = s.anims
    /\ pausedAnims' = s.pausedAnims
    /\ beforePause' = SnapshotAfter(call)
    /\ repeatsDone' = IF Live(s) \/ Live(Self) THEN s.repeatsDone ELSE 0
    /\ armedCount' = IF (Live(s) /\ s.pendingStop = 2) \/ (Live(Self) /\ pendingStop = 2)
                      THEN s.armedCount ELSE 0
    /\ repeatsSinceArm' = IF (Live(s) /\ s.pendingStop = 2) \/ (Live(Self) /\ pendingStop = 2)
                           THEN s.repeatsSinceArm ELSE 0

DoPlay(reqs, flags) ==
    \E key \in reqs, ignoreIfPlaying \in flags :
        Commit(Play(Self, key, ignoreIfPlaying), Call("play", <<key, ignoreIfPlaying>>))

DoPlayReverse(reqs, flags) ==
    \E key \in reqs, ignoreIfPlaying \in flags :
        Commit(PlayReverse(Self, key, ignoreIfPlaying),
               Call("playReverse", <<key, ignoreIfPlaying>>))

DoStop == Commit(Stop(Self), Call("stop", <<>>))

DoLoad(reqs) ==
    \E key \in reqs : Commit(Load(Self, key), Call("load", <<key>>))

DoDefinitionPause(keys) ==
    \E key \in keys \cap registry :
        Commit(DefinitionPause(Self, key), Call("Animation.pause", <<key>>))

DoDefinitionResume(keys) ==
    \E key \in keys \cap registry :
        Commit(DefinitionResume(Self, key), Call("Animation.resume", <<key>>))

DoComplete == Commit(Complete(Self), Call("complete", <<>>))

DoChain(keyLists) ==
    \E keys \in keyLists : Commit(Chain(Self, keys), Call("chain", keys))

DoUpdate(deltas) ==
    \E delta \in deltas : Commit(Update(Self, delta), Call("update", <<delta>>))

DoPause(frames) ==
    \E atFrame \in frames : Commit(Pause(Self, atFrame), Call("pause", <<atFrame>>))

DoResume(frames) ==
    \E fromFrame \in frames : Commit(Resume(Self, fromFrame), Call("resume", <<fromFrame>>))

DoPlayAfterDelay(reqs, delays) ==
    \E key \in reqs, d \in delays :
        Commit(PlayAfterDelay(Self, key, d), Call("playAfterDelay", <<key, d>>))

DoPlayAfterRepeat(reqs, counts) ==
    \E key \in reqs, n \in counts :
        Commit(PlayAfterRepeat(Self, key, n), Call("playAfterRepeat", <<key, n>>))

DoStopAfterDelay(delays) ==
    \E d \in delays : Commit(StopAfterDelay(Self, d), Call("stopAfterDelay", <<d>>))

DoStopAfterRepeat(counts) ==
    \E n \in counts : Commit(StopAfterRepeat(Self, n), Call("stopAfterRepeat", <<n>>))

DoStopOnFrame(frames) ==
    \E f \in frames : Commit(StopOnFrame(Self, f), Call("stopOnFrame", <<f>>))

DoSetRepeat(values) ==
    \E v \in values : Commit(SetRepeat(Self, v), Call("setRepeat", <<v>>))

DoReverse == Commit(Reverse(Self), Call("reverse", <<>>))

DoRestart ==
    \E includeDelay \in BOOLEAN, resetRepeats \in BOOLEAN :
        Commit(Restart(Self, includeDelay, resetRepeats),
               Call("restart", <<includeDelay, resetRepeats>>))

DoGetProgress == Commit(GetProgress(Self), Call("getProgress", <<>>))

DoSetProgress(values) ==
    \E value \in values : Commit(SetProgress(Self, value), Call("setProgress", <<value>>))

\* GameObject.destroy: it runs preDestroy once, on a sprite not yet destroyed
DoSpriteDestroy ==
    /\ anims
    /\ Commit(SpritePreDestroy(Self), Call("Sprite.destroy", <<>>))

DoSpriteDelayedPlay(delays, reqs) ==
    \E d \in delays, key \in reqs :
        Commit(SpriteDelayedPlay(Self, d, key), Call("Sprite.delayedPlay", <<d, key>>))

DoRemove(keys) ==
    \E key \in keys \cap registry :
        Commit(ManagerRemove(Self, key), Call("remove", <<key>>))

Init ==
    /\ isPlaying = Constructed.isPlaying
    /\ hasStarted = Constructed.hasStarted
    /\ currentAnim = Constructed.currentAnim
    /\ currentFrame = Constructed.currentFrame
    /\ nextAnim = Constructed.nextAnim
    /\ nextAnimsQueue = Constructed.nextAnimsQueue
    /\ timeScale = Constructed.timeScale
    /\ msPerFrame = Constructed.msPerFrame
    /\ skipMissedFrames = Constructed.skipMissedFrames
    /\ delay = Constructed.delay
    /\ repeat = Constructed.repeat
    /\ repeatDelay = Constructed.repeatDelay
    /\ yoyo = Constructed.yoyo
    /\ forward = Constructed.forward
    /\ inReverse = Constructed.inReverse
    /\ accumulator = Constructed.accumulator
    /\ nextTick = Constructed.nextTick
    /\ delayCounter = Constructed.delayCounter
    /\ repeatCounter = Constructed.repeatCounter
    /\ pendingRepeat = Constructed.pendingRepeat
    /\ paused = Constructed.paused
    /\ wasPlaying = Constructed.wasPlaying
    /\ pendingStop = Constructed.pendingStop
    /\ pendingStopValue = Constructed.pendingStopValue
    /\ registry = Constructed.registry
    /\ events = <<>>
    /\ fault = FALSE
    /\ lastCall = NoCall
    /\ repeatsDone = 0
    /\ armedCount = 0
    /\ repeatsSinceArm = 0
    /\ returned = NoValue
    /\ beforePause = NoSnapshot
    /\ animationManager = Constructed.animationManager
    /\ subscribed = Constructed.subscribed
    /\ anims = Constructed.anims
    /\ pausedAnims = Constructed.pausedAnims

Deltas == 1 .. MaxDelta

Emitted(evs, kind) == \E i \in 1 .. Len(evs) : evs[i][1] = kind
CountOf(evs, ev) == Cardinality({i \in 1 .. Len(evs) : evs[i] = ev})

-----------------------------------------------------------------------------
(* Delayed starts: play and playReverse of animations with a delay, the    *)
(* tick, and the calls that can be made while the delay is waited out      *)

DelayReqs == {Cfg("a", d, Absent, Absent, Absent) : d \in 1 .. 2}

NextDelay ==
    \/ DoPlay(DelayReqs, {FALSE})
    \/ DoPlayReverse(DelayReqs, {FALSE})
    \/ DoUpdate(Deltas)
    \/ DoStop
    \/ DoChain({<<Key("b")>>})
    \/ DoStopOnFrame({Frame("a", 0)})

SpecDelay == Init /\ [][NextDelay]_vars

\* An update call made while the delay of the loaded animation is waited out
WaitingUpdate ==
    /\ lastCall'.op = "update"
    /\ isPlaying /\ ~hasStarted /\ currentAnim # NullAnim

\* C1: after play or playReverse of an animation with delay d > 0 (time scale
\* 1), an update emits nothing and keeps the frame while the deltas since the
\* start sequence (the accumulator) stay below d, and the update that brings
\* them to d emits the start notification exactly once.
C1_DelayAccounting ==
    [][(WaitingUpdate /\ delay > 0 /\ timeScale = 1) =>
         IF accumulator + lastCall'.args[1] < delay
         THEN ~Emitted(events', "start") /\ currentFrame' = currentFrame
         ELSE CountOf(events', <<"start", currentAnim>>) = 1]_vars

\* The update call that ends the delay: no after-ms pending stop fires in it
\* and the accumulator reaches delayCounter
EndsDelay ==
    /\ WaitingUpdate
    /\ ~(pendingStop = 1 /\ pendingStopValue.index - lastCall'.args[1] <= 0)
    /\ accumulator + lastCall'.args[1] * timeScale >= delayCounter

\* handleStart's frame update hits an armed stop-on-frame pending stop and the
\* stop starts a chained animation
StartStopsIntoChain ==
    pendingStop = 3 /\ pendingStopValue = currentFrame /\ Truthy(nextAnim)

\* C2 as stated: the update call that ends the delay leaves the accumulator at
\* its value a minus delayCounter, in every case.
C2_OverflowAlwaysCarried ==
    [][EndsDelay =>
         accumulator' = accumulator + lastCall'.args[1] * timeScale - delayCounter]_vars

\* C2 amended: the update call that ends the delay leaves the accumulator at
\* its value a minus delayCounter, unless the start itself stops the animation
\* on its start frame and a chained animation is started in its place.
C2_OverflowCarried ==
    [][(EndsDelay /\ ~StartStopsIntoChain) =>
         accumulator' = accumulator + lastCall'.args[1] * timeScale - delayCounter]_vars

\* An update ended the delay with time to spare and the spare time is in the accumulator
C2_Witness ==
    /\ lastCall.op = "update" /\ lastCall.args[1] = 2
    /\ isPlaying /\ hasStarted /\ delayCounter = 1
    /\ events = <<<<"update", "a">>, <<"start", "a">>>>
    /\ accumulator = 1

-----------------------------------------------------------------------------
(* Chaining: chain, the calls that end or replace a playback, and the tick *)

ChainReqs == {Key("a"), Key("b"), Key("c")}
ChainLists == {<<>>, <<Key("b")>>, <<Key("b"), Key("c")>>}

NextChain ==
    \/ DoPlay(ChainReqs, {FALSE})
    \/ DoStop
    \/ DoComplete
    \/ DoChain(ChainLists)
    \/ DoUpdate(Deltas)
    \/ DoPlayAfterDelay({Key("b")}, {2})
    \/ DoPlayAfterRepeat({Key("c")}, {1})

SpecChain == Init /\ [][NextChain]_vars

\* C3: chain([b, c]) called while a plays with nothing chained leaves b as the
\* animation the end of a starts and c behind it; and when an update completes
\* the playing animation, the chained animation starts with its start
\* notification emitted and the animation behind it moves up.
C3_ChainedStartInOrder ==
    [][/\ (/\ lastCall'.op = "chain" /\ lastCall'.args = <<Key("b"), Key("c")>>
           /\ isPlaying /\ currentAnim = "a"
           /\ ~Truthy(nextAnim) /\ nextAnimsQueue = <<>>)
          => (nextAnim' = Key("b") /\ nextAnimsQueue' = <<Key("c")>>)
       /\ (/\ lastCall'.op = "update" /\ Truthy(nextAnim)
           /\ Emitted(events', "complete"))
          => (/\ CountOf(events', <<"start", nextAnim.key>>) = 1
              /\ currentAnim' = nextAnim.key /\ isPlaying'
              /\ nextAnimsQueue' = ShiftRest(nextAnimsQueue)
              /\ (nextAnimsQueue # <<>> => nextAnim' = Head(nextAnimsQueue)))]_vars

\* C4: chain() without an argument leaves the slot and the queue empty, and a
\* stop or a completion that finds them so starts no other animation: the
\* loaded animation stays and is no longer playing.
C4_ChainResetClears ==
    [][/\ (lastCall'.op = "chain" /\ lastCall'.args = <<>>)
          => (nextAnim' = NullReq /\ nextAnimsQueue' = <<>>)
       /\ (/\ nextAnim = NullReq /\ nextAnimsQueue = <<>>
           /\ lastCall'.op \in {"stop", "complete", "update"}
           /\ (Emitted(events', "stop") \/ Emitted(events', "complete")))
          => (/\ ~isPlaying' /\ currentAnim' = currentAnim
              /\ nextAnim' = NullReq /\ nextAnimsQueue' = <<>>
              /\ \A i \in 1 .. Len(events') : events'[i][2] = currentAnim)]_vars

\* chain() emptied a chain of two while an animation was playing
C4_Witness ==
    /\ lastCall.op = "chain" /\ lastCall.args = <<>>
    /\ lastCall.playing /\ lastCall.chained = 2
    /\ isPlaying /\ nextAnim = NullReq /\ nextAnimsQueue = <<>>

\* C5: the queue of further animations is non-empty only if the
\* next-animation slot is occupied.
C5_QueueBehindSlot == nextAnimsQueue # <<>> => Truthy(nextAnim)

\* C6: stop() on a playing animation clears the pending stop and emits the
\* stop notification of that animation first; with nothing chained it emits
\* nothing else and leaves the animation loaded and not playing; with an
\* animation chained, that animation is played and the head of the queue moves
\* into the slot.
C6_StopWhilePlaying ==
    [][(lastCall'.op = "stop" /\ isPlaying /\ currentAnim # NullAnim) =>
         /\ pendingStop' = 0
         /\ Len(events') >= 1 /\ events'[1] = <<"stop", currentAnim>>
         /\ IF ~Truthy(nextAnim)
            THEN /\ ~isPlaying' /\ currentAnim' = currentAnim
                 /\ Len(events') = 1
            ELSE /\ isPlaying' /\ currentAnim' = nextAnim.key
                 /\ forward' /\ ~inReverse'
                 /\ nextAnimsQueue' = ShiftRest(nextAnimsQueue)
                 /\ IF nextAnimsQueue # <<>>
                    THEN nextAnim' = Head(nextAnimsQueue)
                    ELSE ~Truthy(nextAnim')]_vars

\* stop() ended a playing animation with two chained: b plays, c moved up
C6_Witness ==
    /\ lastCall.op = "stop" /\ lastCall.playing /\ lastCall.chained = 2
    /\ events[1][1] = "stop"
    /\ isPlaying /\ currentAnim = "b"
    /\ nextAnim = Key("c") /\ nextAnimsQueue = <<>>

\* C7: stop() called when no animation is running (nothing loaded, or the
\* loaded animation already stopped or completed) emits no stop notification.
C7_NoStopWhenNotRunning ==
    [][(lastCall'.op = "stop" /\ ~isPlaying /\ ~paused) =>
         ~Emitted(events', "stop")]_vars

-----------------------------------------------------------------------------
(* Repeats: animations played with a repeat count, the tick, and a stop    *)
(* armed for after a number of repeats                                     *)

RepeatReqs ==
    {Cfg("a", Absent, r, Absent, Absent) : r \in -1 .. MaxRepeat} \cup {Key("b"), Key("y")}
RepeatCounts == 0 .. (MaxRepeat - 1)

NextRepeat ==
    \/ DoPlay(RepeatReqs, {FALSE})
    \/ DoUpdate(Deltas)
    \/ DoStopAfterRepeat(RepeatCounts)

SpecRepeat == Init /\ [][NextRepeat]_vars

\* An update call on a started animation that plays forward without yoyo
ForwardUpdate ==
    /\ lastCall'.op = "update"
    /\ isPlaying /\ hasStarted /\ currentAnim # NullAnim
    /\ ~yoyo /\ forward

\* C8: a non-yoyo animation with repeat count r >= 0 goes through its frames
\* one frame at a time, starts a new pass (repeat) only from its last frame
\* and only while fewer than r repeats were made, and completes, once, only
\* from its last frame when exactly r repeats were made, that is after r + 1
\* passes; with repeat -1 no update completes it.
C8_RepeatPasses ==
    [][ForwardUpdate =>
         /\ currentFrame' \in {currentFrame, NextOf(currentFrame)}
         /\ Emitted(events', "repeat") =>
              /\ IsLast(currentFrame) /\ IsFirst(currentFrame')
              /\ repeat = -1 \/ repeatsDone < repeat
              /\ repeatsDone' = Bump(repeatsDone)
              /\ ~Emitted(events', "complete")
         /\ Emitted(events', "complete") =>
              /\ IsLast(currentFrame) /\ currentFrame' = currentFrame
              /\ repeat >= 0 /\ repeatsDone = repeat
              /\ CountOf(events', <<"complete", currentAnim>>) = 1
              /\ ~isPlaying'
         /\ (/\ IsLast(currentFrame) /\ pendingStop = 0
             /\ accumulator + lastCall'.args[1] * timeScale >= nextTick)
            => (Emitted(events', "repeat") \/ Emitted(events', "complete"))]_vars

\* a played with repeat 2 completed after its third pass
C8_Witness ==
    /\ lastCall.op = "update" /\ events = <<<<"complete", "a">>>>
    /\ repeat = 2 /\ repeatsDone = 2
    /\ currentFrame = Frame("a", 2) /\ ~isPlaying

\* C9: stopAfterRepeat(n) on a playing animation whose repeat counter is
\* larger than n arms a stop after n repeats; while it is armed with fewer
\* repeats to wait for than remain, an update makes a repeat only while fewer
\* than n were made since, stops the animation only when exactly n were made,
\* and never completes it.
C9_StopAfterRepeat ==
    [][/\ (/\ lastCall'.op = "stopAfterRepeat" /\ isPlaying
           /\ repeatCounter > lastCall'.args[1])
          => (/\ pendingStop' = 2 /\ pendingStopValue' = Num(lastCall'.args[1])
              /\ armedCount' = lastCall'.args[1] /\ repeatsSinceArm' = 0
              /\ repeatCounter' = repeatCounter /\ isPlaying')
       /\ (/\ lastCall'.op = "update" /\ isPlaying /\ pendingStop = 2
           /\ repeatCounter > pendingStopValue.index)
          => (/\ pendingStopValue.index = armedCount - repeatsSinceArm
              /\ Emitted(events', "repeat") =>
                   /\ repeatsSinceArm < armedCount
                   /\ repeatsSinceArm' = repeatsSinceArm + 1
                   /\ pendingStop' = 2 /\ repeatCounter' > pendingStopValue'.index
              /\ Emitted(events', "stop") =>
                   /\ repeatsSinceArm = armedCount /\ ~isPlaying'
                   /\ ~Emitted(events', "repeat")
              /\ ~Emitted(events', "complete"))]_vars

\* a stop armed for after 2 repeats, with repeats remaining, stopped a after 2
C9_Witness ==
    /\ lastCall.op = "update" /\ events = <<<<"stop", "a">>>>
    /\ armedCount = 2 /\ repeatsSinceArm = 2
    /\ repeatCounter >= 1 /\ ~isPlaying

-----------------------------------------------------------------------------
(* Pausing: play, the tick, stop, pause and resume, with and without a     *)
(* frame                                                                   *)

PauseReqs == {Key("a"), Key("b")}
PauseFrames == {NullFrame, Frame("a", 1)}

NextPause ==
    \/ DoPlay(PauseReqs, {FALSE})
    \/ DoUpdate(Deltas)
    \/ DoStop
    \/ DoPause(PauseFrames)
    \/ DoResume(PauseFrames)
    \/ DoStopOnFrame({Frame("a", 1)})

SpecPause == Init /\ [][NextPause]_vars

\* C10: pause() called right after a pause call, and resume() called right
\* after a resume call, change nothing and emit nothing.
C10_PauseResumeIdempotent ==
    [][(/\ lastCall'.op \in {"pause", "resume"}
        /\ lastCall'.args = <<NullFrame>>
        /\ lastCall.op = lastCall'.op)
       => (/\ events' = <<>>
           /\ UNCHANGED <<isPlaying, paused, wasPlaying, hasStarted, currentAnim,
                          currentFrame, accumulator, nextTick, delayCounter,
                          repeatCounter, pendingRepeat, forward, inReverse,
                          pendingStop, pendingStopValue, nextAnim, nextAnimsQueue,
                          timeScale, msPerFrame, delay, repeat, repeatDelay, yoyo>>)]_vars

\* a second pause() on a paused, started animation that was playing
C10_Witness ==
    /\ lastCall.op = "pause" /\ lastCall.again /\ lastCall.args = <<NullFrame>>
    /\ paused /\ wasPlaying /\ ~isPlaying /\ hasStarted /\ currentAnim = "a"

\* What the claim says resume() restores, compared with what pause() found
RestoredAsFound ==
    /\ isPlaying = beforePause.isPlaying
    /\ accumulator = beforePause.accumulator
    /\ nextTick = beforePause.nextTick
    /\ delayCounter = beforePause.delayCounter
    /\ repeatCounter = beforePause.repeatCounter
    /\ pendingStop = beforePause.pendingStop
    /\ pendingStopValue = beforePause.pendingStopValue
    /\ currentFrame = beforePause.currentFrame

\* C11 as stated: after pause(), any number of update calls and resume(),
\* is-playing, the accumulator, the next tick, the delay counter, the repeat
\* counter, the pending stop and the current frame are as pause() found them.
C11_ResumeRestores == beforePause.resumed => RestoredAsFound

\* C11: the same, for a pause() made while the component is not paused.
C11_ResumeRestoresUnpaused ==
    (beforePause.resumed /\ ~beforePause.paused) => RestoredAsFound

\* a playing, started animation was paused, ticked twice and resumed
C11_Witness ==
    /\ beforePause.resumed /\ ~beforePause.paused /\ beforePause.ticks = 2
    /\ beforePause.isPlaying /\ isPlaying /\ hasStarted
    /\ lastCall.op = "resume"

-----------------------------------------------------------------------------
(* Removal: Definitions leave the registry while components play them,     *)
(* hold them paused or stopped, or have them chained                       *)

RemoveReqs == {Key("a"), Key("b")}

NextRemove ==
    \/ DoPlay(RemoveReqs, {FALSE})
    \/ DoUpdate({MaxDelta})
    \/ DoStop
    \/ DoPause({NullFrame})
    \/ DoChain({<<Key("b")>>})
    \/ DoRemove({"a", "b"})

SpecRemove == Init /\ [][NextRemove]_vars

\* C12: when the registry removes the Definition a component is playing, the
\* component is not playing afterwards, shows the first frame of that
\* Definition, and no fault is raised.
C12_RemovePlayingStops ==
    [][(/\ lastCall'.op = "remove" /\ isPlaying
        /\ currentAnim = lastCall'.args[1])
       => (/\ ~fault' /\ ~isPlaying'
           /\ currentFrame' = Frame(currentAnim, 0))]_vars

\* C13: when the registry removes the Definition that is loaded, the
\* component shows the first frame of that Definition afterwards, also when
\* the Definition is loaded and not playing: paused, stopped or completed.
C13_RemoveLoadedResetsFrame ==
    [][(/\ lastCall'.op = "remove" /\ ~isPlaying
        /\ currentAnim = lastCall'.args[1])
       => currentFrame' = Frame(currentAnim, 0)]_vars

-----------------------------------------------------------------------------
(* Progress: getProgress and setProgress on a component that is unloaded,  *)
(* plays forward, plays in reverse, or has flipped at a yoyo               *)

ProgressReqs == {Key("a"), Key("y")}
ProgressReverseReqs == {Cfg("a", Absent, Absent, 1, Absent)}

NextProgress ==
    \/ DoPlay(ProgressReqs, {FALSE})
    \/ DoPlayReverse(ProgressReverseReqs, {FALSE})
    \/ DoUpdate({MaxDelta})
    \/ DoReverse
    \/ DoSetProgress(Progresses)
    \/ DoGetProgress

SpecProgress == Init /\ [][NextProgress]_vars

\* The fields of the component that a call changes or leaves alone
ComponentFields ==
    <<isPlaying, hasStarted, currentAnim, currentFrame, nextAnim, nextAnimsQueue,
      timeScale, msPerFrame, skipMissedFrames, delay, repeat, repeatDelay, yoyo,
      forward, inReverse, accumulator, nextTick, delayCounter, repeatCounter,
      pendingRepeat, paused, wasPlaying, pendingStop, pendingStopValue>>

\* C14: setProgress called while nothing is loaded raises no fault and
\* changes no field of the component.
C14_SetProgressUnloadedNoOp ==
    [][(lastCall'.op = "setProgress" /\ currentAnim = NullAnim)
       => (~fault' /\ UNCHANGED ComponentFields)]_vars

\* C15: getProgress returns a value from 0 to 1, and 0 when no frame is
\* loaded.
C15_ProgressInUnitInterval ==
    lastCall.op = "getProgress" =>
        /\ returned \in 0 .. One
        /\ currentFrame = NullFrame => returned = 0

\* C16: getProgress called right after setProgress(p) on a loaded animation
\* returns a value within one frame's step of progress from p.
C16_SetThenGetProgress ==
    [][(/\ lastCall.op = "setProgress" /\ ~fault /\ currentAnim # NullAnim
        /\ lastCall'.op = "getProgress")
       => Distance(returned', lastCall.args[1])
              <= One \div (Definitions[currentAnim].totalFrames - 1)]_vars

-----------------------------------------------------------------------------
(* Starts: play and playReverse, with and without ignoreIfPlaying, from    *)
(* every state: unloaded, playing, paused, waiting out a delay, with an    *)
(* animation chained, with a pending stop armed                            *)

StartReqs == {Key("a"), Key("b"), Cfg("a", 1, Absent, Absent, Absent)}
StartAgainReqs == {Cfg("a", Absent, Absent, 1, Absent)}

NextStart ==
    \/ DoPlay(StartReqs, BOOLEAN)
    \/ DoPlayReverse(StartAgainReqs, {TRUE})
    \/ DoUpdate({MaxDelta})
    \/ DoPause({NullFrame})
    \/ DoChain({<<Key("b")>>})
    \/ DoStopOnFrame({Frame("a", 1)})

SpecStart == Init /\ [][NextStart]_vars

\* The key and the start index a play or playReverse call asks for
AskedKey == lastCall'.args[1].key
AskedStart == GetFastValue(lastCall'.args[1].startFrame, 0)

\* C17: play(k, true) and playReverse(k, true) called while k is playing emit
\* nothing, raise no fault and change no field of the component.
C17_IgnoreIfPlaying ==
    [][(/\ lastCall'.op \in {"play", "playReverse"}
        /\ lastCall'.args[2] = TRUE
        /\ isPlaying /\ currentAnim = AskedKey)
       => (/\ events' = <<>> /\ ~fault'
           /\ UNCHANGED ComponentFields)]_vars

\* play(a, true) found a playing, part-way through a frame, and left it so
C17_Witness ==
    /\ lastCall.op = "play" /\ lastCall.args = <<Key("a"), TRUE>>
    /\ lastCall.playing /\ isPlaying /\ currentAnim = "a"
    /\ hasStarted /\ currentFrame = Frame("a", 1) /\ events = <<>>

\* C18: after play(k) returns for a key the registry resolves, with a start
\* index in range, the loaded Definition is k and the component is playing,
\* whatever the state the call found.
C18_PlayLoadsAndPlays ==
    [][(/\ lastCall'.op = "play"
        /\ AskedKey \in registry
        /\ AskedStart \in 0 .. (Definitions[AskedKey].totalFrames - 1))
       => (~fault' /\ currentAnim' = AskedKey /\ isPlaying')]_vars

\* play(b) found a playing with b chained, stopped it and plays b
C18_Witness ==
    /\ lastCall.op = "play" /\ lastCall.args = <<Key("b"), FALSE>>
    /\ lastCall.playing /\ lastCall.chained = 1
    /\ events[1] = <<"stop", "a">>
    /\ currentAnim = "b" /\ isPlaying /\ pendingStop = 0

-----------------------------------------------------------------------------
(* Reverse starts: playReverse from every state, with the start index      *)
(* left out or given                                                       *)

StartReverseReqs == {Key("a"), Cfg("a", Absent, Absent, 1, Absent)}

NextStartReverse ==
    \/ DoPlay({Key("a")}, {FALSE})
    \/ DoPlayReverse(StartReverseReqs, {FALSE})
    \/ DoUpdate({MaxDelta})
    \/ DoPause({NullFrame})
    \/ DoChain({<<Key("b")>>})

SpecStartReverse == Init /\ [][NextStartReverse]_vars

\* C19: after playReverse(k) returns for a resolvable key, the component
\* plays k with forward false and inReverse true, whatever the state the
\* call found.
C19_PlayReversePlaysInReverse ==
    [][(/\ lastCall'.op = "playReverse" /\ lastCall'.args[2] = FALSE
        /\ AskedKey \in registry /\ ~fault')
       => (/\ currentAnim' = AskedKey /\ isPlaying'
           /\ ~forward' /\ inReverse')]_vars

\* C20: a load for reverse playback with start index 0 selects the last
\* frame of the Definition and raises no fault.
C20_ReverseStartsAtLastFrame ==
    [][(/\ lastCall'.op = "playReverse" /\ lastCall'.args[2] = FALSE
        /\ AskedKey \in registry /\ AskedStart = 0)
       => (/\ ~fault'
           /\ currentFrame' = Frame(AskedKey, Definitions[AskedKey].totalFrames - 1))]_vars

-----------------------------------------------------------------------------
(* Requests that cannot be served: an unknown key, a start index outside the
   frames of the animation *)

UnknownReqs == {Key("z")}
BadStartReqs == {Cfg("a", Absent, Absent, sf, Absent) : sf \in {2, 3, 4}}

NextBadRequest ==
    \/ DoPlay({Key("a")} \cup UnknownReqs \cup BadStartReqs, {FALSE})
    \/ DoPlayReverse(UnknownReqs, {FALSE})
    \/ DoUpdate(Deltas)
    \/ DoStop
    \/ DoChain({<<Key("b")>>})

SpecBadRequest == Init /\ [][NextBadRequest]_vars

\* C21: play and playReverse called with a key the manager cannot resolve
\* raise no fault and start nothing: after the call is-playing is false and
\* no start notification was emitted, whatever was loaded before.
C21_UnknownKeyStartsNothing ==
    [][(/\ lastCall'.op \in {"play", "playReverse"}
        /\ AskedKey \notin registry)
       => (/\ ~fault'
           /\ ~isPlaying'
           /\ ~Emitted(events', "start"))]_vars

\* C22: a start index outside 0 .. totalFrames - 1, the index totalFrames
\* included, is treated as index 0: play returns without a fault and the
\* current frame is the first frame of the animation asked for.
C22_BadStartIndexIsZero ==
    [][(/\ lastCall'.op = "play"
        /\ AskedKey \in registry
        /\ AskedStart \notin 0 .. (Definitions[AskedKey].totalFrames - 1))
       => (/\ ~fault'
           /\ currentAnim' = AskedKey
           /\ currentFrame' = Frame(AskedKey, 0))]_vars

-----------------------------------------------------------------------------
(* playAfterDelay on a playing animation *)

AfterDelayReqs == {Key("a"), Key("b")}
AfterDelays == {1, MaxDelta + 1}

NextAfterDelay ==
    \/ DoPlay({Key("a"), Key("c")}, {FALSE})
    \/ DoChain({<<Key("b")>>})
    \/ DoPlayAfterDelay(AfterDelayReqs, AfterDelays)
    \/ DoUpdate(Deltas)

SpecAfterDelay == Init /\ [][NextAfterDelay]_vars

-----------------------------------------------------------------------------
(* The delay of a fresh start *)

\* A play call that starts the animation it asks for
FreshPlay ==
    /\ lastCall'.op = "play"
    /\ AskedKey \in registry
    /\ ~(lastCall'.args[2] /\ isPlaying /\ currentAnim = AskedKey)
    /\ ~fault'

\* C24: a play call that starts an animation waits for the delay of that
\* animation and nothing more: the delay counter after the call equals the
\* delay loaded, and an animation without a delay emits its start inside the
\* call.
C24_NoLeftoverDelay ==
    [][FreshPlay => (/\ delayCounter' = delay'
                     /\ delay' = 0 => Emitted(events', "start"))]_vars

-----------------------------------------------------------------------------
(* Arming the after-repeats pending stop *)

AfterRepeatReqs == {Key("b"), Key("c"), Cfg("a", Absent, 2, Absent, Absent)}
AfterRepeatCounts == {Absent} \cup (0 .. MaxRepeat)

NextAfterRepeat ==
    \/ DoPlay(AfterRepeatReqs, {FALSE})
    \/ DoUpdate({MaxDelta})
    \/ DoStopAfterRepeat(AfterRepeatCounts)
    \/ DoPlayAfterRepeat({Key("a")}, AfterRepeatCounts)

SpecAfterRepeat == Init /\ [][NextAfterRepeat]_vars

\* The count a stopAfterRepeat or playAfterRepeat call asks for
AskedCount ==
    LET n == lastCall'.args[Len(lastCall'.args)] IN IF n = Absent THEN 1 ELSE n

\* C25: stopAfterRepeat(n) and playAfterRepeat(request, n) on a playing
\* animation arm the after-repeats stop with the smaller of n and the repeat
\* counter, with n itself when the animation repeats forever; n is 1 when the
\* call gives none.
C25_ArmsWithClampedCount ==
    [][(/\ lastCall'.op \in {"stopAfterRepeat", "playAfterRepeat"}
        /\ isPlaying /\ currentAnim # NullAnim)
       => (/\ ~fault'
           /\ pendingStop' = 2
           /\ pendingStopValue' = Num(Min(AskedCount, repeatCounter))
           /\ repeat = -1 => pendingStopValue' = Num(AskedCount)
           /\ repeatCounter' = repeatCounter
           /\ isPlaying' /\ events' = <<>>)]_vars

\* stopAfterRepeat(2) on an animation with one repeat left armed the stop with 1
C25_Witness ==
    /\ lastCall.op = "stopAfterRepeat" /\ lastCall.args = <<2>>
    /\ lastCall.playing
    /\ repeatCounter = 1
    /\ pendingStop = 2 /\ pendingStopValue = Num(1)

-----------------------------------------------------------------------------
(* The sprite: delayedPlay and destruction *)

NextSprite ==
    \/ DoPlay({Key("a"), Key("b")}, {FALSE})
    \/ DoUpdate({MaxDelta})
    \/ DoChain({<<Key("b")>>})
    \/ DoRemove({"a", "b"})
    \/ DoSpriteDelayedPlay({1}, {Key("a")})
    \/ DoSpriteDestroy

SpecSprite == Init /\ [][NextSprite]_vars

\* C26: Sprite.delayedPlay(delay, key) raises no fault and leaves the
\* component playing: the requested animation waits out the delay, or the
\* playing one goes on until the delay has passed.
C26_SpriteDelayedPlay ==
    [][(/\ lastCall'.op = "Sprite.delayedPlay"
        /\ anims /\ lastCall'.args[2].key \in registry)
       => (/\ ~fault'
           /\ isPlaying'
           /\ currentAnim' = lastCall'.args[2].key \/ nextAnim' = lastCall'.args[2])]_vars

\* C29: the component is subscribed to the removal notifications from its
\* construction until destroy, which runs once, on a sprite not destroyed
\* before, and ends the subscription for good; after it a removal
\* notification and an update tick change no field of the component, emit
\* nothing and raise no fault.
C29_DestroyUnsubscribes ==
    [][/\ lastCall.op = "new" => subscribed
       /\ subscribed' # subscribed => lastCall'.op = "Sprite.destroy"
       /\ lastCall'.op = "Sprite.destroy"
          => (anims /\ subscribed /\ ~fault' /\ ~subscribed' /\ ~anims')
       /\ (~subscribed /\ lastCall'.op \in {"update", "remove"})
          => (~fault' /\ events' = <<>> /\ UNCHANGED ComponentFields)]_vars

\* a removal notification sent after the sprite was destroyed while it played
C29_Witness ==
    /\ lastCall.op = "remove"
    /\ ~subscribed /\ ~anims
    /\ isPlaying /\ currentAnim = NullAnim
    /\ ~fault

-----------------------------------------------------------------------------
(* restart *)

RestartReqs == {Key("a"), Key("b"), Cfg("a", 1, Absent, Absent, Absent)}

NextRestart ==
    \/ DoPlay(RestartReqs, {FALSE})
    \/ DoRestart
    \/ DoUpdate(Deltas)
    \/ DoStop

SpecRestart == Init /\ [][NextRestart]_vars

\* The restart call itself: the restart notification comes first, the
\* animation plays from its first frame with the time counted from zero, and
\* it counts as started unless the delay is included
RestartsNow ==
    (lastCall'.op = "restart" /\ currentAnim # NullAnim)
    => (/\ ~fault'
        /\ Len(events') > 0 /\ events'[1] = <<"restart", currentAnim>>
        /\ ~Emitted(events', "start")
        /\ isPlaying' /\ currentAnim' = currentAnim
        /\ currentFrame' = Frame(currentAnim, 0)
        /\ accumulator' = 0
        /\ hasStarted' = ~lastCall'.args[1])

\* The update that follows restart(false): the frame advances when the time
\* of the frame has passed
AdvancesAfterRestart ==
    (/\ lastCall.op = "restart" /\ ~lastCall.args[1] /\ currentAnim # NullAnim
     /\ lastCall'.op = "update")
    => (/\ ~fault'
        /\ ~Emitted(events', "start")
        /\ lastCall'.args[1] * timeScale >= nextTick => currentFrame' # currentFrame)

\* The update that follows restart(true): start is emitted when the delta
\* covers the delay of the animation, and only then
StartsAfterOwnDelay ==
    (/\ lastCall.op = "restart" /\ lastCall.args[1] /\ currentAnim # NullAnim
     /\ lastCall'.op = "update")
    => (/\ ~fault'
        /\ Emitted(events', "start") <=> lastCall'.args[1] * timeScale >= delay)

\* C27: restart on a loaded animation emits restart at once and plays the
\* animation from its first frame; without the delay it counts as started and
\* the next update advances the frame when its time has passed; with the
\* delay the next update emits start when its delta covers the delay of the
\* animation, and not when it is shorter.
C27_Restart ==
    [][RestartsNow /\ AdvancesAfterRestart /\ StartsAfterOwnDelay]_vars

-----------------------------------------------------------------------------
(* stopOnFrame *)

StopFrames == {Frame("a", 1), Frame("a", 2), Frame("b", 0)}

NextStopOnFrame ==
    \/ DoPlay({Key("a"), Key("b")}, {FALSE})
    \/ DoUpdate({MaxDelta})
    \/ DoStopOnFrame(StopFrames)
    \/ DoChain({<<Key("b")>>})

SpecStopOnFrame == Init /\ [][NextStopOnFrame]_vars

\* The notification kind evs[i] is followed at once by the kind next, both of anim
FollowedBy(evs, kind, next, anim) ==
    \E i \in 1 .. (Len(evs) - 1) : evs[i] = <<kind, anim>> /\ evs[i + 1] = <<next, anim>>

\* C28: stopOnFrame(f) on a playing animation emits nothing and keeps it
\* playing.  While the stop is armed, an update that changes the frame stops
\* the animation exactly when the frame it lands on is f: the update
\* notification is followed at once by the stop notification, and either the
\* animation rests on f or the chained animation plays; an update that lands
\* elsewhere emits no stop, and a frame of another animation never stops it.
C28_StopOnFrame ==
    [][/\ (lastCall'.op = "stopOnFrame" /\ isPlaying /\ currentAnim # NullAnim)
          => (/\ ~fault' /\ events' = <<>>
              /\ isPlaying' /\ currentFrame' = currentFrame
              /\ pendingStop' = 3 /\ pendingStopValue' = lastCall'.args[1])
       /\ (/\ lastCall'.op = "update"
           /\ isPlaying /\ hasStarted /\ currentAnim # NullAnim /\ pendingStop = 3)
          => (/\ ~fault'
              /\ Emitted(events', "stop")
                 => (/\ FollowedBy(events', "update", "stop", currentAnim)
                     /\ pendingStopValue.anim = currentAnim
                     /\ pendingStop' = 0
                     /\ IF Truthy(nextAnim)
                        THEN isPlaying' /\ currentAnim' = nextAnim.key
                        ELSE ~isPlaying' /\ currentFrame' = pendingStopValue)
              /\ (/\ Emitted(events', "update")
                  /\ ~Emitted(events', "stop") /\ ~Emitted(events', "complete"))
                 => currentFrame' # pendingStopValue)]_vars

\* the update that moved a to the awaited frame stopped it there
C28_Witness ==
    /\ lastCall.op = "update"
    /\ events = << <<"update", "a">>, <<"stop", "a">> >>
    /\ currentFrame = Frame("a", 1)
    /\ ~isPlaying

-----------------------------------------------------------------------------
(* The after-ms pending stop in update *)

StopAfterDelayReqs == {Key("c"), Cfg("a", 2, Absent, Absent, 2)}
StopDelays == {1, MaxDelta + 1}

NextStopAfterDelay ==
    \/ DoPlay(StopAfterDelayReqs, {FALSE})
    \/ DoStopAfterDelay(StopDelays)
    \/ DoUpdate(Deltas)
    \/ DoChain({<<Key("b")>>})

SpecStopAfterDelay == Init /\ [][NextStopAfterDelay]_vars

\* C30: an update of a playing animation with the after-ms stop armed takes
\* the delta as given, not scaled by the time scale, from the time left.  When
\* the time left reaches 0 or less the stop runs first and nothing of the
\* stopped animation is started or advanced in that call, also while its
\* initial delay is still waited out: with nothing chained the stop
\* notification is the only one, the frame and has-started stay and the
\* accumulator has only taken the scaled delta.  Otherwise the time left is
\* reduced by the delta and no stop is emitted.
C30_AfterMsStopInUpdate ==
    [][(/\ lastCall'.op = "update"
        /\ isPlaying /\ currentAnim # NullAnim /\ pendingStop = 1)
       => IF pendingStopValue.index - lastCall'.args[1] <= 0
          THEN /\ ~fault'
               /\ events'[1] = <<"stop", currentAnim>>
               /\ pendingStop' = 0
               /\ IF Truthy(nextAnim)
                  THEN isPlaying' /\ currentAnim' = nextAnim.key
                  ELSE /\ events' = << <<"stop", currentAnim>> >>
                       /\ ~isPlaying'
                       /\ currentFrame' = currentFrame /\ hasStarted' = hasStarted
                       /\ accumulator' = accumulator + lastCall'.args[1] * timeScale
          ELSE /\ ~Emitted(events', "stop")
               /\ pendingStop' = 1
                  => pendingStopValue' = Num(pendingStopValue.index - lastCall'.args[1])]_vars

\* the stop ran in the update that would have ended the initial delay of a,
\* played at time scale 2
C30_Witness ==
    /\ lastCall.op = "update"
    /\ events = << <<"stop", "a">> >>
    /\ timeScale = 2
    /\ ~isPlaying /\ ~hasStarted
    /\ accumulator >= delayCounter

-----------------------------------------------------------------------------
(* update on a component that has nothing to advance *)

NextIdleUpdate ==
    \/ DoPlay({Key("a"), Key("c")}, {FALSE})
    \/ DoUpdate(Deltas)
    \/ DoPause({NullFrame})
    \/ DoStop
    \/ DoStopAfterDelay({MaxDelta + 1})
    \/ DoDefinitionPause({"a"})
    \/ DoDefinitionResume({"a"})

SpecIdleUpdate == Init /\ [][NextIdleUpdate]_vars

\* C31: an update call made while the component is not playing (paused,
\* stopped or completed), while nothing is loaded, or while the loaded
\* Definition is paused, changes no field of the component, emits nothing and
\* raises no fault.
C31_IdleUpdateNoOp ==
    [][(/\ lastCall'.op = "update"
        /\ \/ ~isPlaying
           \/ currentAnim = NullAnim
           \/ currentAnim \in pausedAnims)
       => (~fault' /\ events' = <<>> /\ UNCHANGED ComponentFields)]_vars

\* an update reached a playing animation whose Definition is paused, with an
\* after-ms stop armed
C31_Witness ==
    /\ lastCall.op = "update"
    /\ isPlaying /\ hasStarted
    /\ currentAnim \in pausedAnims
    /\ pendingStop = 1

-----------------------------------------------------------------------------
(* The pending stop after the end and the start of a playback *)

NextPendingStop ==
    \/ DoPlay({Key("a"), Key("b")}, {FALSE})
    \/ DoPlayReverse(StartAgainReqs, {FALSE})
    \/ DoUpdate({MaxDelta})
    \/ DoStop
    \/ DoComplete
    \/ DoRestart
    \/ DoChain({<<Key("b")>>})
    \/ DoStopAfterRepeat({1})
    \/ DoStopAfterDelay({MaxDelta + 1})
    \/ DoStopOnFrame({Frame("a", 2)})

SpecPendingStop == Init /\ [][NextPendingStop]_vars

\* A call that ends a playback, restarts the loaded animation or starts one
EndsOrStarts ==
    \/ lastCall'.op \in {"stop", "complete"}
    \/ lastCall'.op = "restart" /\ currentAnim # NullAnim
    \/ lastCall'.op \in {"play", "playReverse"} /\ isPlaying'
    \/ Emitted(events', "stop")
    \/ Emitted(events', "complete")

\* C32: the pending-stop mode is none after every call that returns from a
\* stop, a complete, a restart of a loaded animation or a fresh start (play,
\* playReverse, the start of a chained animation at the end of a playback).
C32_PendingStopReset ==
    [][(EndsOrStarts /\ ~fault') => pendingStop' = 0]_vars

\* stop() ended a playback for which an after-repeats stop had been armed
C32_Witness ==
    /\ lastCall.op = "stop" /\ lastCall.playing
    /\ armedCount > 0
    /\ pendingStop = 0

-----------------------------------------------------------------------------
(* The loaded animation and its frame *)

\* C33: between calls either nothing is loaded, the current Definition and
\* the current frame both null, or both are set and the current frame is a
\* frame of the current Definition.
C33_LoadedState ==
    \/ currentAnim = NullAnim /\ currentFrame = NullFrame
    \/ /\ currentAnim # NullAnim
       /\ currentFrame.anim = currentAnim
       /\ currentFrame.index \in 0 .. (Definitions[currentAnim].totalFrames - 1)

-----------------------------------------------------------------------------
(* The repeat counter *)

RepeatCounterReqs == {Cfg("a", Absent, r, Absent, Absent) : r \in {-1, 1}} \cup {Key("y")}
RepeatValues == {-1, 0, MaxRepeat - 1}

NextRepeatCounter ==
    \/ DoPlay(RepeatCounterReqs, {FALSE})
    \/ DoUpdate({MaxDelta})
    \/ DoSetRepeat(RepeatValues)
    \/ DoRestart

SpecRepeatCounter == Init /\ [][NextRepeatCounter]_vars

\* The repeat counter that stands for a repeat value
CounterFor(value) == IF value = -1 THEN MAX_VALUE ELSE value

\* C34: the repeat counter is never negative.  A call changes it in one of
\* three ways only: setRepeat stores its value, a start or a restart stores
\* the repeat value of the animation, both with -1 stored as the sentinel, and
\* an update takes one off it.
C34_RepeatCounter ==
    [][/\ repeatCounter >= 0 /\ repeatCounter' >= 0
       /\ repeatCounter' # repeatCounter
          => \/ /\ lastCall'.op = "setRepeat"
                /\ repeatCounter' = CounterFor(lastCall'.args[1])
             \/ /\ lastCall'.op \in {"play", "playReverse", "restart"}
                /\ repeatCounter' = CounterFor(repeat')
             \/ /\ lastCall'.op = "update"
                /\ repeatCounter' = repeatCounter - 1
       /\ lastCall'.op = "setRepeat" => repeatCounter' = CounterFor(lastCall'.args[1])]_vars

\* setRepeat(-1) on a playing animation stored the sentinel
C34_Witness ==
    /\ lastCall.op = "setRepeat" /\ lastCall.args = <<-1>>
    /\ isPlaying
    /\ repeatCounter = MAX_VALUE

-----------------------------------------------------------------------------
(* load *)

NextLoad ==
    \/ DoPlay({Key("a")}, {FALSE})
    \/ DoLoad({Key("a"), Key("c")})
    \/ DoChain({<<Key("b")>>})
    \/ DoUpdate({MaxDelta})
    \/ DoStop

SpecLoad == Init /\ [][NextLoad]_vars

\* C35: a load call emits no start notification, for any animation, also
\* when it is made while an animation plays and another one is chained.
C35_LoadEmitsNoStart ==
    [][lastCall'.op = "load" => ~Emitted(events', "start")]_vars

-----------------------------------------------------------------------------
(* Frames are not skipped *)

NextVisit ==
    \/ DoPlay({Key("d"), Key("b")}, {FALSE})
    \/ DoUpdate(Deltas)
    \/ DoReverse
    \/ DoStop

SpecVisit == Init /\ [][NextVisit]_vars

\* The frame next to f in the direction of play (the frames form a ring)
Neighbour(f) == IF forward THEN NextOf(f) ELSE PrevOf(f)

\* C36: with skip-missed-frames false an update of a started animation
\* changes the frame at most once, whatever its delta: the frame stays, or
\* moves to the next frame in the direction of play, and it stays when the
\* time of the frame has not passed.
C36_NoFrameSkipped ==
    [][(/\ lastCall'.op = "update"
        /\ isPlaying /\ hasStarted /\ currentAnim # NullAnim
        /\ ~skipMissedFrames)
       => (/\ ~fault'
           /\ CountOf(events', <<"update", currentAnim>>) <= 1
           /\ currentFrame' \in {currentFrame, Neighbour(currentFrame)}
           /\ accumulator + lastCall'.args[1] * timeScale < nextTick
              => currentFrame' = currentFrame)]_vars

\* an update whose delta covered two frames of d moved it to the second frame
\* and left the rest of the time in the accumulator
C36_Witness ==
    /\ lastCall.op = "update" /\ lastCall.args = <<2>>
    /\ isPlaying /\ currentAnim = "d" /\ ~skipMissedFrames
    /\ currentFrame = Frame("d", 1)
    /\ accumulator >= nextTick

-----------------------------------------------------------------------------
(* is-playing, the loaded Definition and the paused flag *)

NextFlags ==
    \/ DoPlay({Key("a"), Key("z")}, BOOLEAN)
    \/ DoUpdate({MaxDelta})
    \/ DoStop
    \/ DoPause({NullFrame})
    \/ DoResume({NullFrame})
    \/ DoRestart
    \/ DoRemove({"a"})
    \/ DoSpriteDestroy

SpecFlags == Init /\ [][NextFlags]_vars

\* C37: until the component is destroyed, is-playing implies that a
\* Definition is loaded.
C37_PlayingImpliesLoaded ==
    animationManager => (isPlaying => currentAnim # NullAnim)

\* pause and resume on a component with nothing loaded left it not playing
C37_Witness ==
    /\ lastCall.op = "resume"
    /\ animationManager
    /\ currentAnim = NullAnim
    /\ ~paused /\ ~isPlaying
    /\ beforePause.set /\ beforePause.resumed

\* C40: the paused flag and is-playing are never both true.
C40_NotPausedAndPlaying == ~(paused /\ isPlaying)

\* resume set an animation playing again that pause had found playing
C40_Witness ==
    /\ lastCall.op = "resume"
    /\ beforePause.set /\ beforePause.resumed /\ beforePause.isPlaying
    /\ isPlaying /\ ~paused

-----------------------------------------------------------------------------
(* After the end of a playback *)

\* The calls that start a playback
StartingCalls == {"play", "playReverse", "playAfterDelay", "playAfterRepeat", "restart"}

\* C38: after a stop() or complete() call that left nothing playing, a call
\* other than play, playReverse, playAfterDelay, playAfterRepeat and restart
\* leaves is-playing false, resume() after a pause() made before the stop
\* included.
C38_StaysStopped ==
    [][(/\ lastCall.op \in {"stop", "complete"}
        /\ ~isPlaying
        /\ lastCall'.op \notin StartingCalls)
       => ~isPlaying']_vars

-----------------------------------------------------------------------------
(* Stop notifications and the start of the playback *)

\* C39: a call made while the loaded animation waits out its initial delay
\* emits no stop notification for it, unless it has emitted its start
\* notification before.
C39_StopOnlyAfterStart ==
    [][(isPlaying /\ ~hasStarted /\ currentAnim # NullAnim)
       => \A i \in 1 .. Len(events') :
             events'[i] = <<"stop", currentAnim>>
             => \E j \in 1 .. (i - 1) : events'[j] = <<"start", currentAnim>>]_vars

====
